---- MODULE Spec2Model ----
(***************************************************************************)
(* State-machine model of the terminal RPG: the weapon catalog             *)
(* (weapons.py), the character model, world and combat loop (rpg_game.py)  *)
(* and the save/load codec (save_profiles.py).                             *)
(*                                                                         *)
(* Weapon attack values are Python floats (float(attack), weapons.py:6).   *)
(* They are kept here as integers counted in half points, so that 3.5 is   *)
(* 7; base_attack, health, defense, gold ... are Python ints and are kept  *)
(* as plain integers.  Character.attack (base_attack + weapon.attack) is   *)
(* therefore counted in half points too.                                   *)
(*                                                                         *)
(* Every Weapon object of the program is an element of                     *)
(* WeaponManager.weapons: the catalog hands out references, never copies.  *)
(* A weapon reference is the index of the object in `weapons`; 0 is None.  *)
(***************************************************************************)
EXTENDS Integers, Sequences, FiniteSets, TLC

VARIABLES
    pc,            \* position of main(): "start", "main", "player_turn",
                   \* "enemy_turn", "after_battle", "game_over", "saved",
                   \* "reloaded"
    weapons,       \* WeaponManager.weapons: the Weapon objects
    player,        \* the player Character (inventory and equipped_weapon included)
    enemy,         \* main()'s local `enemy`
    turn,          \* battle()'s local `turn`
    outcome,       \* how the last battle() call stands / returned
    discovered,    \* GameWorld.discovered
    moves_count,   \* main()'s local `moves_count`
    choice,        \* battle()'s local `choice`
    save_file,     \* the content of savegame.json
    battles,       \* number of battle() calls so far (bounds the exploration)
    uses           \* history: per Weapon object, the player's attacks with it
                   \* since a copy of it was last acquired in this session
                   \* (-1: none acquired in this session)

vars == <<pc, weapons, player, enemy, turn, outcome, discovered, moves_count,
          choice, save_file, battles, uses>>

battle_vars == <<enemy, turn, outcome, choice>>
world_vars == <<discovered, moves_count>>

----------------------------------------------------------------------------
(* Bounds of the exploration *)

MaxBattles == 1
MaxTurn == 2
MaxInv == 2
MaxGold == 120

----------------------------------------------------------------------------
(* Arithmetic helpers *)

Max(a, b) == IF a >= b THEN a ELSE b
Min(a, b) == IF a <= b THEN a ELSE b

\* Python int() of a float counted in half points: truncation toward zero.
int(h) == IF h >= 0 THEN h \div 2 ELSE -((-h) \div 2)

\* A Python int as a float counted in half points.
float(n) == 2 * n

\* The outcomes of random.randint(lo, hi) the model explores.
randint(lo, hi) == {r \in lo..hi : r = lo \/ r = hi}

----------------------------------------------------------------------------
(* weapons.py: Weapon and WeaponManager *)

\* The parsed lines of weapons.txt: name, attack (half points: 5 is 2.5),
\* rarity, durability, cost.
weapons_txt ==
    << [name |-> "Rusty Sword", attack |-> 5, rarity |-> "Common",
        durability |-> 2, cost |-> 10],
       [name |-> "Excalibur", attack |-> 50, rarity |-> "Legendary",
        durability |-> 0, cost |-> 150] >>

\* Weapon.__init__
Weapon(line) ==
    [name |-> line.name, attack |-> line.attack, rarity |-> line.rarity,
     durability |-> line.durability, max_durability |-> line.durability,
     cost |-> line.cost]

\* WeaponManager.load_weapons
load_weapons(lines) == [i \in 1..Len(lines) |-> Weapon(lines[i])]

\* str.lower() on the names that occur
lower(s) ==
    CASE s = "Rusty Sword" -> "rusty sword"
      [] s = "Excalibur" -> "excalibur"
      [] s = "Moonblade" -> "moonblade"
      [] OTHER -> s

\* Weapon.use: the weapon after the use
use(w) ==
    IF w.max_durability > 0 THEN [w EXCEPT !.durability = w.durability - 1]
    ELSE w

\* Weapon.use: the returned flag (True: the weapon broke)
use_broke(w) == w.max_durability > 0 /\ use(w).durability <= 0

\* WeaponManager.get_weapon_by_name: the first match, 0 for None
get_weapon_by_name(ws, name) ==
    LET hits == {i \in 1..Len(ws) : lower(ws[i].name) = lower(name)}
    IN  IF hits = {} THEN 0 ELSE CHOOSE i \in hits : \A j \in hits : i <= j

\* WeaponManager.get_weapons_by_rarity (as weapon references)
get_weapons_by_rarity(ws, rarity) ==
    SelectSeq([i \in 1..Len(ws) |-> i], LAMBDA i : ws[i].rarity = rarity)

\* Mutant of get_affordable_weapons: the cost is not compared with the gold
get_affordable_weapons_all(ws, gold) == [i \in 1..Len(ws) |-> i]

\* WeaponManager.get_affordable_weapons (as weapon references)
get_affordable_weapons(ws, gold) ==
    SelectSeq([i \in 1..Len(ws) |-> i], LAMBDA i : ws[i].cost <= gold)

Rarities == <<"Common", "Uncommon", "Rare", "Epic", "Legendary">>

\* Mutant of get_random_weapon: an empty tier falls back to the whole catalog
get_random_weapon_any(ws, rarity) ==
    LET available == get_weapons_by_rarity(ws, rarity)
    IN  IF Len(available) > 0 THEN {available[k] : k \in 1..Len(available)}
        ELSE IF Len(ws) > 0 THEN 1..Len(ws)
        ELSE {0}

\* WeaponManager.get_random_weapon(rarity): the possible results, 0 for None
get_random_weapon(ws, rarity) ==
    LET available == get_weapons_by_rarity(ws, rarity)
    IN  IF Len(available) > 0 THEN {available[k] : k \in 1..Len(available)}
        ELSE {0}

\* WeaponManager.get_weighted_random_weapon: the possible results
get_weighted_random_weapon(ws) ==
    UNION {get_random_weapon(ws, Rarities[r]) : r \in 1..Len(Rarities)}

\* A numeric field of a line of weapons.txt: text that float()/int() parses
\* to n
Num(n) == [parses |-> TRUE, value |-> n]

\* A numeric field whose text float()/int() rejects with ValueError
NotNum == [parses |-> FALSE, value |-> 0]

\* Lines of weapons.txt after strip() and split('|'): two weapons, a line of
\* 7 fields, and a line of 8 fields whose durability is not a number
RustyLine ==
    [parts |-> 8, name |-> "Rusty Sword", attack |-> Num(5),
     rarity |-> "Common", durability |-> Num(2), cost |-> Num(10)]
ExcaliburLine ==
    [parts |-> 8, name |-> "Excalibur", attack |-> Num(50),
     rarity |-> "Legendary", durability |-> Num(0), cost |-> Num(150)]
ShortLine ==
    [parts |-> 7, name |-> "Dagger", attack |-> Num(6),
     rarity |-> "Common", durability |-> Num(30), cost |-> Num(20)]
BadNumberLine ==
    [parts |-> 8, name |-> "Cursed Axe", attack |-> Num(30),
     rarity |-> "Epic", durability |-> NotNum, cost |-> Num(90)]

\* Weapon.__init__, lines 6-10: float(attack), int(durability), int(cost)
\* succeed
converts(line) ==
    line.attack.parses /\ line.durability.parses /\ line.cost.parses

\* The arguments load_weapons passes to Weapon(), converted
converted(line) ==
    [name |-> line.name, attack |-> line.attack.value, rarity |-> line.rarity,
     durability |-> line.durability.value, cost |-> line.cost.value]

\* load_weapons, lines 72-92: the loop over the lines from line k on.  A line
\* without 8 fields is passed over; a ValueError of Weapon() leaves the loop
\* for the handler of line 98, the weapons appended so far staying in
\* self.weapons.
RECURSIVE read_lines(_, _, _)
read_lines(ws, lines, k) ==
    IF k > Len(lines) THEN ws
    ELSE IF lines[k].parts # 8 THEN read_lines(ws, lines, k + 1)
    ELSE IF ~converts(lines[k]) THEN ws
    ELSE read_lines(Append(ws, Weapon(converted(lines[k]))), lines, k + 1)

\* weapons.txt is missing
NoWeaponsFile == [kind |-> "absent"]

\* weapons.txt with the lines given
WeaponsFile(lines) == [kind |-> "lines", lines |-> lines]

\* WeaponManager.__init__ and load_weapons: self.weapons afterwards
\* (FileNotFoundError and every other exception are caught)
load_weapons_from(file) ==
    IF file.kind = "absent" THEN <<>> ELSE read_lines(<<>>, file.lines, 1)

----------------------------------------------------------------------------
(* rpg_game.py: Character *)

\* An inventory entry holding a reference to a Weapon object
WeaponItem(w) == [kind |-> "weapon", ref |-> w]

\* Character.__init__
Character(name, health, attack, defense) ==
    [name |-> name, max_health |-> health, health |-> health,
     base_attack |-> attack, attack |-> float(attack), defense |-> defense,
     position |-> <<0, 0>>, inventory |-> <<>>, level |-> 1,
     experience |-> 0, equipped_weapon |-> 0, gold |-> 100,
     xp_reward |-> 0, gold_reward |-> 0]

\* Enemy.__init__
Enemy(data) ==
    [Character(data.name, data.health, data.attack, data.defense)
        EXCEPT !.xp_reward = data.xp_reward, !.gold_reward = data.gold_reward]

\* Character.equip_weapon
equip_weapon(c, ws, w) ==
    [c EXCEPT !.equipped_weapon = w,
              !.attack = float(c.base_attack) + ws[w].attack]

\* Character.unequip_weapon
unequip_weapon(c) ==
    IF c.equipped_weapon # 0
    THEN [c EXCEPT !.equipped_weapon = 0, !.attack = float(c.base_attack)]
    ELSE c

\* Mutant of is_alive: a character at 0 health counts as alive
is_alive_at_zero(c) == c.health >= 0

\* Character.is_alive
is_alive(c) == c.health > 0

\* Mutant of actual_damage: the damage is not floored at 0
actual_damage_raw(c, damage) == damage - c.defense

\* Character.take_damage: the returned actual damage
actual_damage(c, damage) == Max(0, damage - c.defense)

\* Mutant of take_damage: the clamp at 0 is missing
take_damage_unclamped(c, damage) ==
    [c EXCEPT !.health = c.health - actual_damage(c, damage)]

\* Mutant of take_damage: the last health point is never taken
take_damage_leaves_one(c, damage) ==
    [c EXCEPT !.health = Max(1, c.health - actual_damage(c, damage))]

\* Character.take_damage: the character afterwards
take_damage(c, damage) ==
    [c EXCEPT !.health = Max(0, c.health - actual_damage(c, damage))]

\* Character.heal
heal(c, amount) == [c EXCEPT !.health = Min(c.max_health, c.health + amount)]

\* Mutant of damage_rolls: the bounds of randint are swapped
damage_rolls_swapped(c) ==
    randint(int(c.attack + float(5)), int(c.attack - float(2)))

\* Character.attack_target: the possible damage rolls
damage_rolls(c) == randint(int(c.attack - float(2)), int(c.attack + float(5)))

\* Character.attack_target: the weapon objects afterwards
attack_weapons(c, ws) ==
    IF c.equipped_weapon # 0
    THEN [ws EXCEPT ![c.equipped_weapon] = use(ws[c.equipped_weapon])]
    ELSE ws

\* Character.attack_target: the attacker afterwards
attack_attacker(c, ws) ==
    IF c.equipped_weapon # 0 /\ use_broke(ws[c.equipped_weapon])
    THEN [c EXCEPT !.equipped_weapon = 0, !.attack = float(c.base_attack)]
    ELSE c

\* Mutant of level_up: the health is not restored
level_up_keeps_health(c, ws) ==
    [c EXCEPT !.level = c.level + 1,
              !.experience = c.experience - 100,
              !.max_health = c.max_health + 20,
              !.base_attack = c.base_attack + 3,
              !.attack = float(c.base_attack + 3) +
                         (IF c.equipped_weapon # 0
                          THEN ws[c.equipped_weapon].attack ELSE 0),
              !.defense = c.defense + 2]

\* Mutant of level_up: the equipped weapon's bonus is not added back
level_up_forgets_weapon(c, ws) ==
    [c EXCEPT !.level = c.level + 1,
              !.experience = c.experience - 100,
              !.max_health = c.max_health + 20,
              !.health = c.max_health + 20,
              !.base_attack = c.base_attack + 3,
              !.attack = float(c.base_attack + 3),
              !.defense = c.defense + 2]

\* Character.level_up
level_up(c, ws) ==
    [c EXCEPT !.level = c.level + 1,
              !.experience = c.experience - 100,
              !.max_health = c.max_health + 20,
              !.health = c.max_health + 20,
              !.base_attack = c.base_attack + 3,
              !.attack = float(c.base_attack + 3) +
                         (IF c.equipped_weapon # 0
                          THEN ws[c.equipped_weapon].attack ELSE 0),
              !.defense = c.defense + 2]

\* Character.gain_experience: the while loop
RECURSIVE level_loop(_, _)
level_loop(c, ws) ==
    IF c.experience >= 100 THEN level_loop(level_up(c, ws), ws) ELSE c

\* Mutant of gain_experience: an `if` in place of the `while`
gain_experience_once(c, ws, xp) ==
    IF c.experience + xp >= 100
    THEN level_up([c EXCEPT !.experience = c.experience + xp], ws)
    ELSE [c EXCEPT !.experience = c.experience + xp]

\* Character.gain_experience
gain_experience(c, ws, xp) ==
    level_loop([c EXCEPT !.experience = c.experience + xp], ws)

\* Character.add_gold
add_gold(c, amount) == [c EXCEPT !.gold = c.gold + amount]

----------------------------------------------------------------------------
(* rpg_game.py: GameWorld *)

width == 10
height == 10

enemy_types ==
    << [name |-> "Goblin", health |-> 30, attack |-> 8, defense |-> 2,
        xp_reward |-> 25, gold_reward |-> 15],
       [name |-> "Skeleton", health |-> 40, attack |-> 10, defense |-> 3,
        xp_reward |-> 35, gold_reward |-> 25],
       [name |-> "Orc", health |-> 60, attack |-> 15, defense |-> 5,
        xp_reward |-> 50, gold_reward |-> 40],
       [name |-> "Dark Knight", health |-> 80, attack |-> 20, defense |-> 8,
        xp_reward |-> 75, gold_reward |-> 60],
       [name |-> "Dragon", health |-> 150, attack |-> 30, defense |-> 12,
        xp_reward |-> 150, gold_reward |-> 100] >>

\* Mutant of random_encounter: every enemy type, whatever the level
random_encounter_any(c) == {Enemy(enemy_types[k]) : k \in 1..Len(enemy_types)}

\* GameWorld.random_encounter: the possible enemies
random_encounter(c) ==
    LET max_index == Min(Len(enemy_types) - 1, c.level)
    IN  {Enemy(enemy_types[k]) : k \in 1..(max_index + 1)}

\* GameWorld.move_character, lines 147-152: the step of a known direction
moves_of(direction) ==
    CASE direction = "up" -> <<0, 1>>
      [] direction = "down" -> <<0, -1>>
      [] direction = "left" -> <<-1, 0>>
      [] direction = "right" -> <<1, 0>>

Known == {"up", "down", "left", "right"}

\* Mutant of in_world: the upper edges are not checked
in_world_open(new_x, new_y) == 0 <= new_x /\ 0 <= new_y

\* GameWorld.move_character, line 159: the boundary check
in_world(new_x, new_y) ==
    0 <= new_x /\ new_x < width /\ 0 <= new_y /\ new_y < height

\* GameWorld.move_character: [ok, c, discovered] afterwards, ok the returned
\* flag
move_character(c, disc, direction) ==
    IF direction \in Known
    THEN LET new_x == c.position[1] + moves_of(direction)[1]
             new_y == c.position[2] + moves_of(direction)[2]
         IN  IF in_world(new_x, new_y)
             THEN [ok |-> TRUE,
                   c |-> [c EXCEPT !.position = <<new_x, new_y>>],
                   discovered |-> disc \cup {<<new_x, new_y>>}]
             ELSE [ok |-> FALSE, c |-> c, discovered |-> disc]
    ELSE [ok |-> FALSE, c |-> c, discovered |-> disc]

NoEnemy == Enemy([name |-> "", health |-> 0, attack |-> 0, defense |-> 0,
                  xp_reward |-> 0, gold_reward |-> 0])

----------------------------------------------------------------------------
(* save_profiles.py: SaveManager *)

\* JSON null
null == [null |-> TRUE]

\* An inventory entry that is a plain string
PlainItem(text) == [kind |-> "item", text |-> text]

\* Mutant of weapon_data: the durability written is the maximum
weapon_data_full(w) ==
    [name |-> w.name, attack |-> w.attack, rarity |-> w.rarity,
     durability |-> w.max_durability, max_durability |-> w.max_durability,
     cost |-> w.cost]

\* save_game, lines 30-40 and 49-59: the snapshot of a Weapon object
weapon_data(w) ==
    [name |-> w.name, attack |-> w.attack, rarity |-> w.rarity,
     durability |-> w.durability, max_durability |-> w.max_durability,
     cost |-> w.cost]

\* save_game, lines 46-62: one inventory entry
item_data(item, ws) ==
    IF item.kind = "weapon" THEN weapon_data(ws[item.ref])
    ELSE [item_name |-> item.text]

\* list(world.discovered): the elements in some order
RECURSIVE list(_)
list(S) ==
    IF S = {} THEN <<>>
    ELSE LET e == CHOOSE e \in S : TRUE IN <<e>> \o list(S \ {e})

\* set(tuple(pos) for pos in ...)
set(l) == {l[k] : k \in 1..Len(l)}

\* save_game, lines 14-78: the record written to the file
save_data(c, ws, disc, moves) ==
    [player |->
        [name |-> c.name, health |-> c.health, max_health |-> c.max_health,
         base_attack |-> c.base_attack, attack |-> c.attack,
         defense |-> c.defense, position |-> c.position, level |-> c.level,
         experience |-> c.experience, gold |-> c.gold, moves_count |-> moves,
         equipped_weapon |->
            IF c.equipped_weapon # 0 THEN weapon_data(ws[c.equipped_weapon])
            ELSE null,
         inventory |->
            [k \in 1..Len(c.inventory) |-> item_data(c.inventory[k], ws)]],
     world |-> [width |-> width, height |-> height,
               discovered |-> list(disc)],
     version |-> "1.0"]

\* The content of a save file holding the JSON text of `data`
JsonFile(data) == [kind |-> "json", data |-> data]

\* No save file on disk
NoFile == [kind |-> "absent"]

\* load_game, lines 102-112: the scalar fields
load_scalars(c, pd) ==
    [c EXCEPT !.name = pd.name, !.health = pd.health,
              !.max_health = pd.max_health, !.base_attack = pd.base_attack,
              !.attack = pd.attack, !.defense = pd.defense,
              !.position = pd.position, !.level = pd.level,
              !.experience = pd.experience, !.gold = pd.gold]

\* load_game, lines 115-126: the equipped weapon; [c, ws] afterwards
load_equipped(c, ws, pd) ==
    IF pd.equipped_weapon # null
    THEN LET equipped == get_weapon_by_name(ws, pd.equipped_weapon.name)
         IN  IF equipped # 0
             THEN [c |-> [c EXCEPT !.equipped_weapon = equipped],
                   ws |-> [ws EXCEPT ![equipped].durability =
                                        pd.equipped_weapon.durability]]
             ELSE [c |-> c, ws |-> ws]
    ELSE [c |-> [c EXCEPT !.equipped_weapon = 0], ws |-> ws]

\* Mutant of load_inventory: the loop ends at the first weapon that the
\* catalog does not hold
RECURSIVE load_inventory_stops(_, _, _, _)
load_inventory_stops(inv, ws, entries, k) ==
    IF k > Len(entries) THEN [inventory |-> inv, ws |-> ws]
    ELSE IF "name" \in DOMAIN entries[k]
    THEN LET weapon == get_weapon_by_name(ws, entries[k].name)
         IN  IF weapon # 0
             THEN load_inventory_stops(
                    Append(inv, WeaponItem(weapon)),
                    [ws EXCEPT ![weapon].durability = entries[k].durability],
                    entries, k + 1)
             ELSE [inventory |-> inv, ws |-> ws]
    ELSE IF "item_name" \in DOMAIN entries[k]
    THEN load_inventory_stops(Append(inv, PlainItem(entries[k].item_name)),
                              ws, entries, k + 1)
    ELSE load_inventory_stops(inv, ws, entries, k + 1)

\* load_game, lines 129-138: the inventory loop from entry k on;
\* [inventory, ws] afterwards
RECURSIVE load_inventory(_, _, _, _)
load_inventory(inv, ws, entries, k) ==
    IF k > Len(entries) THEN [inventory |-> inv, ws |-> ws]
    ELSE IF "name" \in DOMAIN entries[k]
    THEN LET weapon == get_weapon_by_name(ws, entries[k].name)
         IN  IF weapon # 0
             THEN load_inventory(
                    Append(inv, WeaponItem(weapon)),
                    [ws EXCEPT ![weapon].durability = entries[k].durability],
                    entries, k + 1)
             ELSE load_inventory(inv, ws, entries, k + 1)
    ELSE IF "item_name" \in DOMAIN entries[k]
    THEN load_inventory(Append(inv, PlainItem(entries[k].item_name)), ws,
                        entries, k + 1)
    ELSE load_inventory(inv, ws, entries, k + 1)

\* load_game: [result, player, weapons, discovered] afterwards; result is the
\* returned moves count, or null for None.  A missing key raises at the line
\* that reads it, and what was assigned before stays assigned.
load_game(file, c, ws, disc) ==
    IF file.kind # "json" \/ "player" \notin DOMAIN file.data
    THEN [result |-> null, player |-> c, weapons |-> ws, discovered |-> disc]
    ELSE LET pd == file.data.player
             eq == load_equipped(load_scalars(c, pd), ws, pd)
             inv == load_inventory(<<>>, eq.ws, pd.inventory, 1)
             loaded == [eq.c EXCEPT !.inventory = inv.inventory]
         IN  IF "world" \notin DOMAIN file.data
             THEN [result |-> null, player |-> loaded, weapons |-> inv.ws,
                   discovered |-> disc]
             ELSE [result |-> [moves_count |-> pd.moves_count],
                   player |-> loaded, weapons |-> inv.ws,
                   discovered |-> set(file.data.world.discovered)]

----------------------------------------------------------------------------
(* State after construction: main() has built the world (and with it the  *)
(* catalog) and has not yet decided between a new game and a load.        *)

NoPlayer == Character("", 0, 0, 0)

RustySwordData(durability) ==
    [name |-> "Rusty Sword", attack |-> 5, rarity |-> "Common",
     durability |-> durability, max_durability |-> 2, cost |-> 10]

\* A save file left by an earlier session: three battles won, the sword used
\* once, little health left, a plain item among the inventory.
VeteranSave ==
    JsonFile(
      [player |->
         [name |-> "Hero", health |-> 12, max_health |-> 100,
          base_attack |-> 15, attack |-> 35, defense |-> 5,
          position |-> <<1, 0>>, level |-> 1, experience |-> 85,
          gold |-> 155, moves_count |-> 1,
          equipped_weapon |-> RustySwordData(1),
          inventory |-> << RustySwordData(1), [item_name |-> "Old Map"] >>],
       world |-> [width |-> 10, height |-> 10,
                  discovered |-> << <<0, 0>>, <<1, 0>> >>],
       version |-> "1.0"])

\* The save files a session of the game may find
SaveFiles == {NoFile, VeteranSave}

\* No copy of any weapon acquired yet
NoUses == [w \in 1..Len(weapons_txt) |-> -1]

Init ==
    /\ pc = "start"
    /\ weapons = load_weapons(weapons_txt)
    /\ player = NoPlayer
    /\ enemy = NoEnemy
    /\ turn = 0
    /\ outcome = "none"
    /\ choice = ""
    /\ discovered = {}
    /\ moves_count = 0
    /\ save_file \in SaveFiles
    /\ battles = 0
    /\ uses = NoUses

\* History: `after` has one inventory entry more than `before`; if it is a
\* weapon, a copy of it has just been acquired.
acquired(u, before, after) ==
    LET n == Len(after.inventory)
    IN  IF n > Len(before.inventory) /\ after.inventory[n].kind = "weapon"
        THEN [u EXCEPT ![after.inventory[n].ref] = 0]
        ELSE u

\* main(), lines 463-484: a new character with the starting weapon
new_character(ws) ==
    LET fresh == Character("Hero", 100, 15, 5)
        starting_weapon == get_weapon_by_name(ws, "Rusty Sword")
    IN  IF starting_weapon # 0
        THEN equip_weapon(
               [fresh EXCEPT !.inventory =
                               Append(@, WeaponItem(starting_weapon))],
               ws, starting_weapon)
        ELSE fresh

\* main(), lines 433-484: no save file, or the load is declined and the old
\* file deleted: a new game.  (Declining without deleting differs only in the
\* file that the next save overwrites.)
NewGame ==
    /\ pc = "start"
    /\ save_file' = NoFile
    /\ player' = new_character(weapons)
    /\ discovered' = discovered \cup {<<0, 0>>}
    /\ moves_count' = 0
    /\ pc' = "main"
    /\ uses' = acquired(NoUses, NoPlayer, player')
    /\ UNCHANGED <<weapons, battle_vars, battles>>

\* main(), lines 433-452 and 463-486, from a world just built: the save file
\* is loaded into a temporary character; a failed load falls back to a new
\* game.  [loaded, pc, weapons, player, discovered, moves_count] afterwards.
load_or_new(file, ws) ==
    LET got == load_game(file, Character("Temp", 100, 15, 5), ws, {})
    IN  IF got.result # null
        THEN [loaded |-> TRUE,
              pc |-> IF is_alive(got.player) THEN "main" ELSE "game_over",
              weapons |-> got.weapons, player |-> got.player,
              discovered |-> got.discovered,
              moves_count |-> got.result.moves_count]
        ELSE [loaded |-> FALSE, pc |-> "main", weapons |-> got.weapons,
              player |-> new_character(got.weapons),
              discovered |-> got.discovered \cup {<<0, 0>>},
              moves_count |-> 0]

\* main(), lines 433-452: the player asks for the save file to be loaded
LoadGame ==
    /\ pc = "start"
    /\ save_file.kind # "absent"
    /\ LET r == load_or_new(save_file, weapons)
       IN  /\ pc' = r.pc
           /\ weapons' = r.weapons
           /\ player' = r.player
           /\ discovered' = r.discovered
           /\ moves_count' = r.moves_count
           /\ uses' = IF r.loaded THEN NoUses
                      ELSE acquired(NoUses, NoPlayer, r.player)
    /\ UNCHANGED <<battle_vars, save_file, battles>>

\* main() choice 8: save_game writes the file.  The exploration ends the
\* session here; what the next session makes of the file is Reload.
SaveGame ==
    /\ pc = "main"
    /\ save_file' = JsonFile(save_data(player, weapons, discovered, moves_count))
    /\ pc' = "saved"
    /\ UNCHANGED <<weapons, player, battle_vars, world_vars, battles, uses>>

\* The next session: main() builds a new world and catalog and loads the file
\* the session before has just written.  The exploration ends here.
Reload ==
    /\ pc = "saved"
    /\ LET r == load_or_new(save_file, load_weapons(weapons_txt))
       IN  /\ weapons' = r.weapons
           /\ player' = r.player
           /\ discovered' = r.discovered
           /\ moves_count' = r.moves_count
           /\ uses' = IF r.loaded THEN NoUses
                      ELSE acquired(NoUses, NoPlayer, r.player)
    /\ pc' = "reloaded"
    /\ UNCHANGED <<battle_vars, save_file, battles>>

----------------------------------------------------------------------------
(* rpg_game.py: the main menu *)

\* inventory_menu, line 316: the weapons of the inventory, in order
inventory_weapons(c) == SelectSeq(c.inventory, LAMBDA item : item.kind = "weapon")

\* main() choice 6, inventory_menu choice 1..len(weapons): equip
InventoryEquip ==
    /\ pc = "main"
    /\ \E k \in 1..Len(inventory_weapons(player)) :
         player' = equip_weapon(player, weapons, inventory_weapons(player)[k].ref)
    /\ UNCHANGED <<pc, weapons, battle_vars, world_vars, save_file, battles,
                   uses>>

\* main() choice 6, inventory_menu choice len(weapons)+1: unequip
InventoryUnequip ==
    /\ pc = "main"
    /\ player' = unequip_weapon(player)
    /\ UNCHANGED <<pc, weapons, battle_vars, world_vars, save_file, battles,
                   uses>>

\* main() choice 5: rest
Rest ==
    /\ pc = "main"
    /\ player' = heal(player, 25)
    /\ UNCHANGED <<pc, weapons, battle_vars, world_vars, save_file, battles,
                   uses>>

\* shop_menu, lines 263-275: at most 5 affordable weapons per rarity, from
\* rarity number r on
RECURSIVE shown_weapons(_, _, _)
shown_weapons(ws, gold, r) ==
    IF r > Len(Rarities) THEN <<>>
    ELSE LET rarity_weapons ==
               SelectSeq(get_affordable_weapons(ws, gold),
                         LAMBDA w : ws[w].rarity = Rarities[r])
         IN  SubSeq(rarity_weapons, 1, Min(5, Len(rarity_weapons)))
             \o shown_weapons(ws, gold, r + 1)

\* shop_menu, lines 282-288: the player after a confirmed purchase
purchase(c, ws, w) ==
    [c EXCEPT !.gold = c.gold - ws[w].cost,
              !.inventory = Append(c.inventory, WeaponItem(w))]

\* main() choice 7: shop_menu with a confirmed purchase
ShopBuy ==
    /\ pc = "main"
    /\ Len(inventory_weapons(player)) < MaxInv
    /\ \E k \in 1..Len(shown_weapons(weapons, player.gold, 1)) :
         player' = purchase(player, weapons,
                            shown_weapons(weapons, player.gold, 1)[k])
    /\ uses' = acquired(uses, player, player')
    /\ UNCHANGED <<pc, weapons, battle_vars, world_vars, save_file, battles>>

\* GameWorld.find_treasure: the possible players afterwards
find_treasure(c, ws) ==
    {IF w # 0 THEN [c EXCEPT !.inventory = Append(c.inventory, WeaponItem(w))]
     ELSE c : w \in get_weighted_random_weapon(ws)}
    \cup {add_gold(c, gold_amount) : gold_amount \in randint(20, 100)}
    \cup {heal(c, 30)}

\* The treasure finds the bounds of the exploration admit
bounded_treasure(c, ws) ==
    {p \in find_treasure(c, ws) :
        Len(inventory_weapons(p)) <= MaxInv /\ p.gold <= MaxGold}

\* battle(), lines 350-355: the fight begins
StartBattle ==
    /\ battles < MaxBattles
    /\ battles' = battles + 1
    /\ enemy' \in random_encounter(player)
    /\ turn' = 1
    /\ outcome' = "ongoing"
    /\ choice' = ""
    /\ pc' = "player_turn"

\* main() choice 4: explore, with a battle
ExploreBattle ==
    /\ pc = "main"
    /\ StartBattle
    /\ UNCHANGED <<weapons, player, world_vars, save_file, uses>>

\* main() choice 4: explore, without a battle; perhaps a treasure
ExploreNothing ==
    /\ pc = "main"
    /\ player' \in {player} \cup bounded_treasure(player, weapons)
    /\ uses' = acquired(uses, player, player')
    /\ UNCHANGED <<pc, weapons, battle_vars, world_vars, save_file, battles>>

\* Mutant of treasure_after: any battle the player survives may be followed
\* by a treasure
treasure_after_any(result) == result # "playerDefeat"

\* main() lines 521 and 535: only a won battle may be followed by a treasure
treasure_after(result) == result = "playerVictory"

\* main() lines 518-522 and 532-536: battle() has returned
AfterBattle ==
    /\ pc = "after_battle"
    /\ IF ~is_alive(player)
       THEN pc' = "game_over" /\ player' = player
       ELSE /\ pc' = "main"
            /\ IF treasure_after(outcome)
               THEN player' \in {player} \cup bounded_treasure(player, weapons)
               ELSE player' = player
    /\ uses' = acquired(uses, player, player')
    /\ enemy' = NoEnemy
    /\ turn' = 0
    /\ outcome' = "none"
    /\ choice' = ""
    /\ UNCHANGED <<weapons, world_vars, save_file, battles>>

----------------------------------------------------------------------------
(* rpg_game.py: battle *)

\* Mutant of player_action: an input that is not 1, 2 or 3 heals like a defend
player_action_heals(p, ws, e, input, damage) ==
    CASE input = "1" ->
           [p |-> attack_attacker(p, ws), ws |-> attack_weapons(p, ws),
            e |-> take_damage(e, damage)]
      [] input = "3" -> [p |-> p, ws |-> ws, e |-> e]
      [] OTHER -> [p |-> heal(p, 15), ws |-> ws, e |-> e]

\* battle(), lines 369-377: the player's action; [p, ws, e] afterwards
player_action(p, ws, e, input, damage) ==
    CASE input = "1" ->
           [p |-> attack_attacker(p, ws), ws |-> attack_weapons(p, ws),
            e |-> take_damage(e, damage)]
      [] input = "2" -> [p |-> heal(p, 15), ws |-> ws, e |-> e]
      [] OTHER -> [p |-> p, ws |-> ws, e |-> e]

\* battle(), lines 379-382: the player runs and gets away
flees(input, escaped) == input = "3" /\ escaped

\* Mutant of victory_rewards: the gold is not paid out
victory_rewards_no_gold(p, ws, e) == gain_experience(p, ws, e.xp_reward)

\* battle(), lines 390-391: the rewards of a victory
victory_rewards(p, ws, e) ==
    add_gold(gain_experience(p, ws, e.xp_reward), e.gold_reward)

\* Mutant of next_turn: the counter is not advanced
next_turn_stuck(t) == t

\* battle(), line 406
next_turn(t) == t + 1

\* battle(), lines 367-392: the player's action and the victory check
PlayerTurn ==
    /\ pc = "player_turn"
    /\ turn <= MaxTurn
    /\ \E input \in {"1", "2", "3", "x"}, escaped \in BOOLEAN,
          damage \in damage_rolls(player) :
         LET acted == player_action(player, weapons, enemy, input, damage)
         IN  /\ choice' = input
             /\ IF flees(input, escaped)
                THEN /\ outcome' = "playerFled"
                     /\ pc' = "after_battle"
                     /\ UNCHANGED <<player, weapons, enemy, uses>>
                ELSE /\ weapons' = acted.ws
                     /\ enemy' = acted.e
                     /\ uses' =
                          IF input = "1" /\ player.equipped_weapon # 0
                             /\ uses[player.equipped_weapon] >= 0
                          THEN [uses EXCEPT ![player.equipped_weapon] = @ + 1]
                          ELSE uses
                     /\ IF ~is_alive(acted.e)
                        THEN /\ player' =
                                  victory_rewards(acted.p, acted.ws, acted.e)
                             /\ outcome' = "playerVictory"
                             /\ pc' = "after_battle"
                        ELSE /\ player' = acted.p
                             /\ outcome' = outcome
                             /\ pc' = "enemy_turn"
    /\ UNCHANGED <<turn, world_vars, save_file, battles>>

\* battle(), lines 394-406: the enemy's attack and the defeat check
EnemyTurn ==
    /\ pc = "enemy_turn"
    /\ \E damage \in damage_rolls(enemy) :
         /\ player' = take_damage(player, damage)
         /\ weapons' = attack_weapons(enemy, weapons)
         /\ enemy' = attack_attacker(enemy, weapons)
         /\ IF ~is_alive(take_damage(player, damage))
            THEN /\ outcome' = "playerDefeat"
                 /\ pc' = "after_battle"
                 /\ turn' = turn
            ELSE /\ outcome' = outcome
                 /\ pc' = "player_turn"
                 /\ turn' = next_turn(turn)
    /\ choice' = ""
    /\ UNCHANGED <<world_vars, save_file, battles, uses>>

----------------------------------------------------------------------------

Next ==
    \/ NewGame
    \/ LoadGame
    \/ SaveGame
    \/ Reload
    \/ InventoryEquip
    \/ InventoryUnequip
    \/ Rest
    \/ ShopBuy
    \/ ExploreBattle
    \/ ExploreNothing
    \/ AfterBattle
    \/ PlayerTurn
    \/ EnemyTurn

Spec == Init /\ [][Next]_vars

----------------------------------------------------------------------------
(* The Character methods called one by one on a character, outside main():  *)
(* gain_experience (whole, and its loop step by step) and take_damage.      *)
(* pc is "char_idle" between calls and "char_loop" inside the while loop    *)
(* of gain_experience.                                                      *)

MaxLevel == 4

\* The xp amounts passed to gain_experience
XpGains == {0, 40, 150, 250}

\* The raw damages passed to take_damage
Damages == {0, 3, 5, 6, 50, 200}

\* The characters the calls start from: a new character, with or without
\* experience, with or without a weapon equipped
CharStarts ==
    {[(IF w = 0 THEN Character("Hero", 100, 15, 5)
       ELSE equip_weapon(
              [Character("Hero", 100, 15, 5)
                 EXCEPT !.inventory = <<WeaponItem(w)>>],
              load_weapons(weapons_txt), w))
        EXCEPT !.experience = e] :
       e \in {0, 60}, w \in 0..Len(weapons_txt)}

CharInit ==
    /\ pc = "char_idle"
    /\ weapons = load_weapons(weapons_txt)
    /\ player \in CharStarts
    /\ enemy = NoEnemy
    /\ turn = 0
    /\ outcome = "none"
    /\ choice = ""
    /\ discovered = {}
    /\ moves_count = 0
    /\ save_file = NoFile
    /\ battles = 0
    /\ uses = NoUses

\* Character.gain_experience(x), the whole call
CharGainExperience ==
    /\ pc = "char_idle"
    /\ \E x \in XpGains :
         /\ gain_experience(player, weapons, x).level <= MaxLevel
         /\ player' = gain_experience(player, weapons, x)
    /\ UNCHANGED <<pc, weapons, battle_vars, world_vars, save_file, battles,
                   uses>>

\* Character.gain_experience(x), line 95: self.experience += xp
CharAddXp ==
    /\ pc = "char_idle"
    /\ \E x \in XpGains :
         /\ gain_experience(player, weapons, x).level <= MaxLevel
         /\ player' = [player EXCEPT !.experience = player.experience + x]
    /\ pc' = "char_loop"
    /\ UNCHANGED <<weapons, battle_vars, world_vars, save_file, battles, uses>>

\* Character.gain_experience, lines 98-99: one iteration of the while loop
CharLevelUp ==
    /\ pc = "char_loop"
    /\ player.experience >= 100
    /\ player' = level_up(player, weapons)
    /\ UNCHANGED <<pc, weapons, battle_vars, world_vars, save_file, battles,
                   uses>>

\* Character.gain_experience, line 98: the loop condition fails
CharLoopExit ==
    /\ pc = "char_loop"
    /\ player.experience < 100
    /\ pc' = "char_idle"
    /\ UNCHANGED <<weapons, player, battle_vars, world_vars, save_file,
                   battles, uses>>

\* Character.take_damage(d)
CharTakeDamage ==
    /\ pc = "char_idle"
    /\ \E d \in Damages : player' = take_damage(player, d)
    /\ UNCHANGED <<pc, weapons, battle_vars, world_vars, save_file, battles,
                   uses>>

CharNext ==
    \/ CharGainExperience
    \/ CharAddXp
    \/ CharLevelUp
    \/ CharLoopExit
    \/ CharTakeDamage

CharSpec == CharInit /\ [][CharNext]_vars

----------------------------------------------------------------------------
(* Sessions around the save file alone: main() finds a file (or none), the  *)
(* player loads it or starts a new game, saves, and the next session loads  *)
(* what was written.  The file may be one that the catalog has changed      *)
(* under, one that lacks a key, or one that is not JSON.                    *)

MaxEntries == 3

\* A weapon the file was saved with and the catalog no longer holds
MoonbladeData ==
    [name |-> "Moonblade", attack |-> 24, rarity |-> "Rare",
     durability |-> 7, max_durability |-> 9, cost |-> 80]

ExcaliburData ==
    [name |-> "Excalibur", attack |-> 50, rarity |-> "Legendary",
     durability |-> 0, max_durability |-> 0, cost |-> 150]

\* The inventory entries save_game may have written
SavedEntries ==
    {RustySwordData(1), MoonbladeData, ExcaliburData, [item_name |-> "Old Map"]}

SavedInventories == UNION {[1..n -> SavedEntries] : n \in 0..MaxEntries}

\* The file save_game wrote for the veteran with the inventory and the
\* equipped weapon given (the saved attack is the base attack plus the bonus
\* of the weapon equipped when the file was written)
SaveOf(inventory, equipped) ==
    JsonFile([VeteranSave.data EXCEPT
                !.player.inventory = inventory,
                !.player.equipped_weapon = equipped,
                !.player.attack =
                   float(VeteranSave.data.player.base_attack) +
                   (IF equipped = null THEN 0 ELSE equipped.attack)])

\* A JSON object without one of its keys
without(data, key) == [k \in DOMAIN data \ {key} |-> data[k]]

\* A file that json.load rejects: empty, or the beginning of a save
EmptyFile == [kind |-> "text", text |-> ""]
PartialFile == [kind |-> "text", text |-> "{\"player\": {\"name\": \"He"]

FileSaves ==
    UNION {{SaveOf(inventory, equipped) :
              equipped \in {null} \cup
                 {inventory[k] :
                    k \in {j \in 1..Len(inventory) :
                             "name" \in DOMAIN inventory[j]}}} :
           inventory \in SavedInventories}
    \cup {JsonFile(without(VeteranSave.data, key)) :
            key \in {"player", "world", "version"}}
    \cup {NoFile, EmptyFile, PartialFile}

FileInit ==
    /\ pc = "start"
    /\ weapons = load_weapons(weapons_txt)
    /\ player = NoPlayer
    /\ enemy = NoEnemy
    /\ turn = 0
    /\ outcome = "none"
    /\ choice = ""
    /\ discovered = {}
    /\ moves_count = 0
    /\ save_file \in FileSaves
    /\ battles = 0
    /\ uses = NoUses

\* save_game, lines 81-88, with an I/O error: open() fails and the file is as
\* it was; open() has truncated the file and json.dump fails before or while
\* writing; or the error comes when the file is closed, all of it written.
\* The exception is caught, False is returned and main() goes on.
SaveFailure ==
    /\ pc = "main"
    /\ save_file' \in {save_file, EmptyFile, PartialFile,
                       JsonFile(save_data(player, weapons, discovered,
                                          moves_count))}
    /\ UNCHANGED <<pc, weapons, player, battle_vars, world_vars, battles, uses>>

FileNext ==
    \/ NewGame
    \/ LoadGame
    \/ SaveGame
    \/ SaveFailure
    \/ Reload

FileSpec == FileInit /\ [][FileNext]_vars

----------------------------------------------------------------------------
(* The catalog alone: WeaponManager() reads weapons.txt, whatever it holds, *)
(* and treasure finds draw weapons from the catalog that results.           *)

MaxLines == 3

\* The contents of weapons.txt
WeaponFiles ==
    {NoWeaponsFile}
    \cup {WeaponsFile(lines) :
            lines \in UNION {[1..n -> {RustyLine, ExcaliburLine, ShortLine,
                                       BadNumberLine}] : n \in 0..MaxLines}}

CatalogInit ==
    /\ pc = "boot"
    /\ weapons = <<>>
    /\ player = Character("Hero", 100, 15, 5)
    /\ enemy = NoEnemy
    /\ turn = 0
    /\ outcome = "none"
    /\ choice = ""
    /\ discovered = {}
    /\ moves_count = 0
    /\ save_file = NoFile
    /\ battles = 0
    /\ uses = NoUses

\* main(), line 429: GameWorld() builds the WeaponManager, which reads
\* weapons.txt
CatalogLoad ==
    /\ pc = "boot"
    /\ \E file \in WeaponFiles : weapons' = load_weapons_from(file)
    /\ pc' = "catalog"
    /\ UNCHANGED <<player, battle_vars, world_vars, save_file, battles, uses>>

\* find_treasure, lines 231-234: a weapon is drawn and, if there is one,
\* appended to the inventory
CatalogDraw ==
    /\ pc = "catalog"
    /\ Len(player.inventory) < MaxInv
    /\ \E w \in get_weighted_random_weapon(weapons) :
         player' = IF w # 0
                   THEN [player EXCEPT !.inventory = Append(@, WeaponItem(w))]
                   ELSE player
    /\ UNCHANGED <<pc, weapons, battle_vars, world_vars, save_file, battles,
                   uses>>

CatalogNext ==
    \/ CatalogLoad
    \/ CatalogDraw

CatalogSpec == CatalogInit /\ [][CatalogNext]_vars

----------------------------------------------------------------------------
(* The game played on from a save that was written after the sword broke:   *)
(* the broken sword is still in the inventory and nothing is equipped.      *)

BrokenSave ==
    JsonFile([VeteranSave.data EXCEPT
                !.player.attack = float(15),
                !.player.equipped_weapon = null,
                !.player.inventory =
                   << RustySwordData(0), [item_name |-> "Old Map"] >>])

WearInit ==
    /\ pc = "start"
    /\ weapons = load_weapons(weapons_txt)
    /\ player = NoPlayer
    /\ enemy = NoEnemy
    /\ turn = 0
    /\ outcome = "none"
    /\ choice = ""
    /\ discovered = {}
    /\ moves_count = 0
    /\ save_file = BrokenSave
    /\ battles = 0
    /\ uses = NoUses

WearSpec == WearInit /\ [][Next]_vars

----------------------------------------------------------------------------
(* Walking the world: a new game at (0, 0), or a game loaded from a save    *)
(* written in the far corner, and then moves, each perhaps with an          *)
(* encounter.                                                               *)

MaxMoves == 2

\* The directions typed at the prompt, after strip().lower(); "north" is not
\* one that move_character knows
Directions == Known \cup {"north"}

\* A save written at (9, 9) after 18 moves along the bottom and the right edge
CornerSave ==
    JsonFile([VeteranSave.data EXCEPT
                !.player.position = <<9, 9>>,
                !.player.moves_count = 18,
                !.world.discovered =
                   [k \in 1..19 |-> IF k <= 10 THEN <<k - 1, 0>>
                                    ELSE <<9, k - 10>>]])

\* The moves count the session began with
moves_at_start(file) ==
    IF file.kind = "json" THEN file.data.player.moves_count ELSE 0

MoveInit ==
    /\ pc = "start"
    /\ weapons = load_weapons(weapons_txt)
    /\ player = NoPlayer
    /\ enemy = NoEnemy
    /\ turn = 0
    /\ outcome = "none"
    /\ choice = ""
    /\ discovered = {}
    /\ moves_count = 0
    /\ save_file \in {NoFile, CornerSave}
    /\ battles = 0
    /\ uses = NoUses

\* main() choice 3, lines 508-514: a move that is rejected, or one that is
\* accepted and meets no enemy
Move ==
    /\ pc = "main"
    /\ moves_count < moves_at_start(save_file) + MaxMoves
    /\ \E direction \in Directions :
         LET moved == move_character(player, discovered, direction)
         IN  /\ player' = moved.c
             /\ discovered' = moved.discovered
             /\ moves_count' = IF moved.ok THEN moves_count + 1
                               ELSE moves_count
    /\ UNCHANGED <<pc, weapons, battle_vars, save_file, battles, uses>>

\* main() choice 3, lines 508-516: an accepted move that meets an enemy
MoveEncounter ==
    /\ pc = "main"
    /\ moves_count < moves_at_start(save_file) + MaxMoves
    /\ \E direction \in Directions :
         LET moved == move_character(player, discovered, direction)
         IN  /\ moved.ok
             /\ player' = moved.c
             /\ discovered' = moved.discovered
             /\ moves_count' = moves_count + 1
    /\ StartBattle
    /\ UNCHANGED <<weapons, save_file, uses>>

MoveNext ==
    \/ NewGame
    \/ LoadGame
    \/ Move
    \/ MoveEncounter
    \/ PlayerTurn
    \/ EnemyTurn
    \/ AfterBattle

MoveSpec == MoveInit /\ [][MoveNext]_vars

----------------------------------------------------------------------------
(* One exploration that meets an enemy, for players of several levels: a    *)
(* player who has won battles before stands in main() and explores.         *)

\* A player who began with the weapon w, has since gained 100 experience per
\* level above the first and xp more
hero(ws, w, level, xp) ==
    gain_experience(
      equip_weapon([Character("Hero", 100, 15, 5)
                      EXCEPT !.inventory = <<WeaponItem(w)>>], ws, w),
      ws, 100 * (level - 1) + xp)

BattleStarts ==
    {hero(load_weapons(weapons_txt), w, level, xp) :
       w \in 1..Len(weapons_txt), level \in {1, 4, 5}, xp \in {0, 85}}

BattleInit ==
    /\ pc = "main"
    /\ weapons = load_weapons(weapons_txt)
    /\ player \in BattleStarts
    /\ enemy = NoEnemy
    /\ turn = 0
    /\ outcome = "none"
    /\ choice = ""
    /\ discovered = {<<0, 0>>}
    /\ moves_count = 0
    /\ save_file = NoFile
    /\ battles = 0
    /\ uses = acquired(NoUses, NoPlayer, player)

BattleNext ==
    \/ ExploreBattle
    \/ PlayerTurn
    \/ EnemyTurn
    \/ AfterBattle

BattleSpec == BattleInit /\ [][BattleNext]_vars

----------------------------------------------------------------------------
(* One battle in which the player attacks in every round, fought to its     *)
(* end: the round counter runs as far as the battle lasts.  The loop of     *)
(* battle() goes on as long as the program runs and the player answers the  *)
(* prompt, hence the weak fairness.                                         *)

\* main() choice 4: the one exploration, with a battle
FirstEncounter == battles = 0 /\ ExploreBattle

\* battle(), lines 367-392, the input being "1" in every round
AttackTurn ==
    /\ pc = "player_turn"
    /\ \E damage \in damage_rolls(player) :
         LET acted == player_action(player, weapons, enemy, "1", damage)
         IN  /\ choice' = "1"
             /\ weapons' = acted.ws
             /\ enemy' = acted.e
             /\ uses' =
                  IF player.equipped_weapon # 0
                     /\ uses[player.equipped_weapon] >= 0
                  THEN [uses EXCEPT ![player.equipped_weapon] = @ + 1]
                  ELSE uses
             /\ IF ~is_alive(acted.e)
                THEN /\ player' = victory_rewards(acted.p, acted.ws, acted.e)
                     /\ outcome' = "playerVictory"
                     /\ pc' = "after_battle"
                ELSE /\ player' = acted.p
                     /\ outcome' = outcome
                     /\ pc' = "enemy_turn"
    /\ UNCHANGED <<turn, world_vars, save_file, battles>>

AttackNext ==
    \/ FirstEncounter
    \/ AttackTurn
    \/ EnemyTurn
    \/ AfterBattle

AttackSpec == BattleInit /\ [][AttackNext]_vars /\ WF_vars(AttackNext)

----------------------------------------------------------------------------
(* Properties *)

\* The attack bonus of the weapon a character has equipped (0 without one)
weapon_bonus(c) ==
    IF c.equipped_weapon # 0 THEN weapons[c.equipped_weapon].attack ELSE 0

\* A step that is the player's attack in a battle round
PlayerAttacks == pc = "player_turn" /\ choice' = "1"

\* C1: in every reachable state the attack of a character is its base attack
\* plus the attack bonus of the weapon it has equipped, and its base attack
\* alone when nothing is equipped (so also after an unequip, a break and a
\* level-up).
C1_EffectiveAttack ==
    /\ player.attack = float(player.base_attack) + weapon_bonus(player)
    /\ enemy.attack = float(enemy.base_attack) + weapon_bonus(enemy)

\* C1: a battle won, with a level-up, while a weapon is equipped
C1_Witness ==
    /\ pc = "after_battle" /\ outcome = "playerVictory"
    /\ player.level = 2 /\ player.equipped_weapon # 0

\* C2: for the player and the enemy, 0 <= health <= max_health in every
\* reachable state.
C2_HealthInRange ==
    /\ 0 <= player.health /\ player.health <= player.max_health
    /\ 0 <= enemy.health /\ enemy.health <= enemy.max_health

\* C2: the player defended at full health, and the enemy has been wounded
C2_Witness ==
    /\ pc = "enemy_turn" /\ choice = "2"
    /\ player.health = player.max_health
    /\ enemy.health < enemy.max_health

\* C3: a weapon with max_durability N > 0 acquired in this session stays
\* equipped through its first N-1 attacks and breaks on the Nth (it is then
\* unequipped and the attack is the base attack again); a weapon with
\* max_durability 0 is never unequipped by an attack, nor its durability
\* changed.
C3_BreaksOnNthUse ==
    [][\A w \in 1..Len(weapons) :
         (PlayerAttacks /\ player.equipped_weapon = w /\ uses[w] >= 0) =>
            LET N == weapons[w].max_durability
            IN  /\ (N > 0 /\ uses'[w] < N) => player'.equipped_weapon = w
                /\ (N > 0 /\ uses'[w] = N) =>
                      /\ player'.equipped_weapon = 0
                      /\ player'.attack = float(player'.base_attack)
                /\ N = 0 =>
                      /\ player'.equipped_weapon = w
                      /\ weapons'[w].durability = weapons[w].durability]_vars

\* C4: an attack changes the durability of at most one of the copies the
\* inventory holds.
C4_CopiesIndependent ==
    [][PlayerAttacks =>
         Cardinality({k \in 1..Len(player.inventory) :
                        /\ player.inventory[k].kind = "weapon"
                        /\ weapons'[player.inventory[k].ref].durability #
                           weapons[player.inventory[k].ref].durability}) <= 1]_vars

\* C5: every catalog entry has its durability equal to its max_durability in
\* every reachable state.
C5_CatalogReadOnly ==
    \A w \in 1..Len(weapons) : weapons[w].durability = weapons[w].max_durability

\* C6: the session that loads the file a save has just written has the same
\* character as the session that saved: the scalar fields, the equipped weapon
\* and its durability, the inventory entry by entry (weapons with their
\* durability, plain items as strings), the discovered set and the moves
\* count.
C6_RoundTrip ==
    [][pc = "saved" =>
         /\ pc' = "reloaded"
         /\ player'.name = player.name
         /\ player'.health = player.health
         /\ player'.max_health = player.max_health
         /\ player'.base_attack = player.base_attack
         /\ player'.attack = player.attack
         /\ player'.defense = player.defense
         /\ player'.position = player.position
         /\ player'.level = player.level
         /\ player'.experience = player.experience
         /\ player'.gold = player.gold
         /\ (player'.equipped_weapon = 0) = (player.equipped_weapon = 0)
         /\ player.equipped_weapon # 0 =>
              /\ weapons'[player'.equipped_weapon].name =
                 weapons[player.equipped_weapon].name
              /\ weapons'[player'.equipped_weapon].durability =
                 weapons[player.equipped_weapon].durability
         /\ Len(player'.inventory) = Len(player.inventory)
         /\ \A k \in 1..Len(player.inventory) :
              /\ player'.inventory[k].kind = player.inventory[k].kind
              /\ IF player.inventory[k].kind = "weapon"
                 THEN /\ weapons'[player'.inventory[k].ref].name =
                         weapons[player.inventory[k].ref].name
                      /\ weapons'[player'.inventory[k].ref].durability =
                         weapons[player.inventory[k].ref].durability
                 ELSE player'.inventory[k].text = player.inventory[k].text
         /\ discovered' = discovered
         /\ moves_count' = moves_count]_vars

\* C6: reloaded with three inventory entries, a plain item among them, and a
\* partly worn weapon equipped
C6_Witness ==
    /\ pc = "reloaded"
    /\ Len(player.inventory) = 3
    /\ \E k \in 1..3 : player.inventory[k].kind = "item"
    /\ player.equipped_weapon # 0
    /\ weapons[player.equipped_weapon].durability \in
         1..(weapons[player.equipped_weapon].max_durability - 1)

\* C7: when the enemy's health is 0 after the player's action, the battle
\* ends in that step with playerVictory (the enemy does not act, the round
\* counter stands, the player's health is not reduced) and the player has
\* gained exactly the enemy's xp_reward, through gain_experience, and its
\* gold_reward.
C7_VictoryBeforeEnemyActs ==
    [][(pc = "player_turn" /\ enemy'.health = 0) =>
         /\ outcome' = "playerVictory"
         /\ pc' = "after_battle"
         /\ turn' = turn
         /\ player'.health >= player.health
         /\ player'.gold = player.gold + enemy.gold_reward
         /\ 100 * player'.level + player'.experience =
            100 * player.level + player.experience + enemy.xp_reward
         /\ player'.experience < 100]_vars

\* C7: a battle won in its first round
C7_Witness ==
    /\ pc = "after_battle" /\ outcome = "playerVictory"
    /\ enemy.health = 0 /\ turn = 1

\* C8: a successful flee ends the battle in that step with playerFled: the
\* enemy does not act, the player, the enemy and the weapons are unchanged,
\* and nothing is awarded when main() goes on.
C8_FleeEndsCombat ==
    [][/\ (pc = "player_turn" /\ outcome' = "playerFled") =>
            /\ pc' = "after_battle"
            /\ choice' = "3"
            /\ turn' = turn
            /\ player' = player /\ enemy' = enemy /\ weapons' = weapons
       /\ (pc = "after_battle" /\ outcome = "playerFled") =>
            /\ pc' = "main"
            /\ player' = player /\ weapons' = weapons]_vars

\* C8: the player fled in the second round
C8_Witness ==
    pc = "after_battle" /\ outcome = "playerFled" /\ turn = 2

\* C9 as claimed: after a failed flee the enemy attacks, the round counter
\* advances by one and the battle stays ongoing.
C9_FailedFleeKeepsCombat ==
    [][/\ (pc = "player_turn" /\ choice' = "3" /\ outcome' # "playerFled") =>
            pc' = "enemy_turn" /\ outcome' = "ongoing"
       /\ (pc = "enemy_turn" /\ choice = "3") =>
            /\ \E damage \in damage_rolls(enemy) :
                 player' = take_damage(player, damage)
            /\ turn' = turn + 1
            /\ outcome' = "ongoing"
            /\ pc' = "player_turn"]_vars

\* C9 amended: a failed flee changes nothing and does not itself end the
\* battle; the enemy then attacks; if the player survives, the round counter
\* advances by one and the battle stays ongoing; if the attack brings the
\* player's health to 0, the battle ends with playerDefeat and the round
\* counter stands.
C9_FailedFlee ==
    [][/\ (pc = "player_turn" /\ choice' = "3" /\ outcome' # "playerFled") =>
            /\ pc' = "enemy_turn" /\ outcome' = "ongoing"
            /\ turn' = turn
            /\ player' = player /\ enemy' = enemy /\ weapons' = weapons
       /\ (pc = "enemy_turn" /\ choice = "3") =>
            /\ \E damage \in damage_rolls(enemy) :
                 player' = take_damage(player, damage)
            /\ enemy' = enemy
            /\ IF player'.health > 0
               THEN /\ turn' = turn + 1
                    /\ outcome' = "ongoing"
                    /\ pc' = "player_turn"
               ELSE /\ turn' = turn
                    /\ outcome' = "playerDefeat"
                    /\ pc' = "after_battle"]_vars

\* C9: a flee has failed in the second round; the enemy is about to attack
C9_Witness ==
    pc = "enemy_turn" /\ choice = "3" /\ turn = 2 /\ player.health < 10

\* C10: the battle ends with playerDefeat exactly in the step in which the
\* enemy's attack brings the player's health to 0; when battle() has returned,
\* victory means the enemy at 0 and the player alive, defeat the player at 0
\* and the enemy alive, fled both alive; while the battle runs both are alive;
\* and a defeat or a flee awards nothing.
C10_TerminalStates ==
    [][/\ (outcome' = "playerDefeat" /\ outcome # "playerDefeat") <=>
            (pc = "enemy_turn" /\ player'.health = 0)
       /\ pc' \in {"player_turn", "enemy_turn"} =>
            outcome' = "ongoing" /\ player'.health > 0 /\ enemy'.health > 0
       /\ pc' = "after_battle" =>
            /\ outcome' \in {"playerVictory", "playerDefeat", "playerFled"}
            /\ outcome' = "playerVictory" <=>
                 (enemy'.health = 0 /\ player'.health > 0)
            /\ outcome' = "playerDefeat" <=>
                 (player'.health = 0 /\ enemy'.health > 0)
            /\ outcome' = "playerFled" <=>
                 (player'.health > 0 /\ enemy'.health > 0)
       /\ outcome' \in {"playerDefeat", "playerFled"} =>
            /\ player'.gold = player.gold
            /\ player'.level = player.level
            /\ player'.experience = player.experience
            /\ player'.inventory = player.inventory
       /\ (pc = "after_battle" /\ outcome \in {"playerDefeat", "playerFled"})
            => player' = player]_vars

\* C10: battle() has returned with the player defeated
C10_Witness ==
    /\ pc = "after_battle" /\ outcome = "playerDefeat"
    /\ player.health = 0 /\ enemy.health > 0

\* C11: between calls 0 <= experience < 100 and level >= 1, and from such a
\* character with experience e, gain_experience(x) performs exactly
\* (e + x) div 100 level-ups and leaves (e + x) mod 100 experience.
C11_GainExperience ==
    pc = "char_idle" =>
      /\ player.experience \in 0..99
      /\ player.level >= 1
      /\ \A x \in XpGains :
           LET after == gain_experience(player, weapons, x)
           IN  /\ after.level = player.level + (player.experience + x) \div 100
               /\ after.experience = (player.experience + x) % 100
               /\ after.max_health =
                    player.max_health + 20 * ((player.experience + x) \div 100)

\* C11: level 3 with 50 experience, as after gain_experience(250) on a new
\* character
C11_Witness ==
    pc = "char_idle" /\ player.level = 3 /\ player.experience = 50

\* C12: one level_up adds 1 to level, takes 100 from experience, adds 20 to
\* max_health, sets health to the new max_health, adds 3 to base_attack and 2
\* to defense, and leaves the equipped weapon, the weapons' durability, the
\* inventory, the gold and the position as they were.
C12_LevelUp ==
    [][(pc = "char_loop" /\ pc' = "char_loop") =>
         /\ player'.level = player.level + 1
         /\ player'.experience = player.experience - 100
         /\ player'.max_health = player.max_health + 20
         /\ player'.health = player'.max_health
         /\ player'.base_attack = player.base_attack + 3
         /\ player'.defense = player.defense + 2
         /\ player'.equipped_weapon = player.equipped_weapon
         /\ weapons' = weapons
         /\ player'.inventory = player.inventory
         /\ player'.gold = player.gold
         /\ player'.position = player.position]_vars

\* C12: inside the loop after the first level-up of a character that has a
\* weapon equipped
C12_Witness ==
    /\ pc = "char_loop" /\ player.level = 2 /\ player.experience >= 100
    /\ player.equipped_weapon # 0

\* C13: for every raw damage d, take_damage(d) returns max(0, d - defense)
\* and sets health to max(0, health - max(0, d - defense)); a damage that does
\* not exceed the defense leaves the health as it was.
C13_TakeDamage ==
    \A d \in Damages :
      /\ actual_damage(player, d) = Max(0, d - player.defense)
      /\ take_damage(player, d).health =
           Max(0, player.health - Max(0, d - player.defense))
      /\ d <= player.defense => take_damage(player, d).health = player.health
      /\ take_damage(player, d) =
           [player EXCEPT !.health = take_damage(player, d).health]

\* C13: a wounded character, after a damage of 6 against a defense of 5
C13_Witness ==
    pc = "char_idle" /\ player.defense = 5 /\ player.health = 99

\* The saved inventory entries that the catalog can resolve, and the plain
\* items, in their saved order
resolvable(entries) ==
    SelectSeq(entries,
              LAMBDA e : \/ "item_name" \in DOMAIN e
                         \/ \E w \in 1..Len(weapons) :
                              lower(weapons[w].name) = lower(e.name))

\* A step in which main() loads the save file, the file having its keys
LoadsSave ==
    /\ pc = "start" /\ pc' # "start"
    /\ save_file.kind = "json" /\ save_file' = save_file
    /\ {"player", "world"} \subseteq DOMAIN save_file.data

\* C14: loading a save whose inventory names weapons that the catalog does
\* not hold succeeds; exactly those entries are dropped and the others are
\* restored in their saved order, the weapons with their saved durability.
C14_UnknownWeaponsDropped ==
    [][LoadsSave =>
         LET kept == resolvable(save_file.data.player.inventory)
         IN  /\ moves_count' = save_file.data.player.moves_count
             /\ player'.health = save_file.data.player.health
             /\ Len(player'.inventory) = Len(kept)
             /\ \A k \in 1..Len(kept) :
                  IF "item_name" \in DOMAIN kept[k]
                  THEN /\ player'.inventory[k].kind = "item"
                       /\ player'.inventory[k].text = kept[k].item_name
                  ELSE /\ player'.inventory[k].kind = "weapon"
                       /\ weapons'[player'.inventory[k].ref].name = kept[k].name
                       /\ weapons'[player'.inventory[k].ref].durability =
                            kept[k].durability]_vars

\* C14: loaded from a save whose second of three entries the catalog does not
\* hold
C14_Witness ==
    /\ pc = "main"
    /\ save_file = SaveOf(<<RustySwordData(1), MoonbladeData,
                            [item_name |-> "Old Map"]>>, null)
    /\ Len(player.inventory) = 2
    /\ moves_count = 1

\* What load_game returns for the file main() has found
load_result ==
    load_game(save_file, Character("Temp", 100, 15, 5), weapons, {}).result

\* C15: what load_game returns for a file that is not JSON or lacks the player
\* or world key differs from what it returns when there is no file.
C15_NoSaveDistinctFromLoadError ==
    (/\ pc = "start"
     /\ \/ save_file.kind = "text"
        \/ /\ save_file.kind = "json"
           /\ ~({"player", "world"} \subseteq DOMAIN save_file.data))
    => load_result #
         load_game(NoFile, Character("Temp", 100, 15, 5), weapons, {}).result

\* C16: load_game fails for a record that lacks one of the keys player, world
\* and version.
C16_RequiredKeys ==
    (/\ pc = "start"
     /\ save_file.kind = "json"
     /\ ~({"player", "world", "version"} \subseteq DOMAIN save_file.data))
    => load_result = null

\* C17: a save that fails leaves the file as it was or holding the whole new
\* record, returns to main() and leaves the character and the world as they
\* were.
C17_SaveAllOrNothing ==
    [][(pc = "main" /\ pc' = "main") =>
         /\ \/ save_file' = save_file
            \/ save_file' =
                 JsonFile(save_data(player, weapons, discovered, moves_count))
         /\ player' = player /\ weapons' = weapons
         /\ discovered' = discovered /\ moves_count' = moves_count]_vars

\* C18: a draw for a tier returns a weapon of that tier when the catalog has
\* one and no weapon when it has none, never a weapon of another tier; the
\* weighted draw is a draw for one of the five tiers; an empty catalog yields
\* no weapon.
C18_DrawWithinTier ==
    /\ \A r \in 1..Len(Rarities) :
         LET drawn == get_random_weapon(weapons, Rarities[r])
         IN  IF \E w \in 1..Len(weapons) : weapons[w].rarity = Rarities[r]
             THEN \A w \in drawn :
                    w \in 1..Len(weapons) /\ weapons[w].rarity = Rarities[r]
             ELSE drawn = {0}
    /\ get_weighted_random_weapon(weapons) =
         UNION {get_random_weapon(weapons, Rarities[r]) :
                  r \in 1..Len(Rarities)}
    /\ weapons = <<>> => get_weighted_random_weapon(weapons) = {0}
    /\ \A k \in 1..Len(player.inventory) :
         player.inventory[k].ref \in 1..Len(weapons)

\* C18: a weapon has been drawn from a catalog that holds Legendary weapons
\* only
C18_Witness ==
    /\ pc = "catalog"
    /\ Len(weapons) = 2
    /\ \A w \in 1..Len(weapons) : weapons[w].rarity = "Legendary"
    /\ Len(player.inventory) >= 1

\* The lines of a file that hold 8 fields
full_lines(file) == SelectSeq(file.lines, LAMBDA line : line.parts = 8)

\* C19: a missing weapons.txt gives an empty catalog; lines without 8 fields
\* are passed over and the lines after them loaded; a line of 8 fields with a
\* number that does not parse fails the load as a whole, no weapon of the file
\* being kept.
C19_CatalogLoadErrors ==
    pc = "boot" =>
      \A file \in WeaponFiles :
        IF file.kind = "absent" THEN load_weapons_from(file) = <<>>
        ELSE IF \A k \in 1..Len(full_lines(file)) : converts(full_lines(file)[k])
        THEN load_weapons_from(file) =
               [k \in 1..Len(full_lines(file)) |->
                  Weapon(converted(full_lines(file)[k]))]
        ELSE load_weapons_from(file) = <<>>

\* C20: in every reachable state the durability of every weapon lies between
\* 0 and its max_durability.
C20_DurabilityInRange ==
    \A w \in 1..Len(weapons) :
      0 <= weapons[w].durability
        /\ weapons[w].durability <= weapons[w].max_durability

\* The position of the player lies inside the grid
InGrid ==
    /\ 0 <= player.position[1] /\ player.position[1] < width
    /\ 0 <= player.position[2] /\ player.position[2] < height

\* What move_character makes of every direction in the state at hand: a
\* known direction that stays inside the grid is accepted, the position moves
\* by its step and joins the discovered set; every other move is rejected and
\* changes nothing.
MovesAsClaimed ==
    \A direction \in Directions :
      LET moved == move_character(player, discovered, direction)
          target == <<player.position[1] + moves_of(direction)[1],
                      player.position[2] + moves_of(direction)[2]>>
      IN  IF direction \in Known
             /\ target[1] \in 0..(width - 1) /\ target[2] \in 0..(height - 1)
          THEN /\ moved.ok
               /\ moved.c = [player EXCEPT !.position = target]
               /\ moved.discovered = discovered \cup {target}
          ELSE /\ ~moved.ok
               /\ moved.c = player
               /\ moved.discovered = discovered

\* C21: during play the position stays inside the grid; a move that would
\* leave the grid or names an unknown direction is rejected and changes
\* neither the position nor the discovered set; an accepted move adds the new
\* position to the discovered set; and the discovered set only grows.
C21_MovesStayInGrid ==
    [][/\ pc # "start" =>
            /\ discovered \subseteq discovered'
            /\ moves_count' \in {moves_count, moves_count + 1}
            /\ player'.position # player.position =>
                 /\ <<player'.position[1], player'.position[2]>> \in discovered'
                 /\ moves_count' = moves_count + 1
            /\ player'.position = player.position => discovered' = discovered
       /\ InGrid' /\ MovesAsClaimed']_vars

\* C21: in the far corner, with more discovered than the save held: a move
\* was accepted and the way back is open, up and right are closed
C21_Witness ==
    /\ pc = "main"
    /\ player.position = <<9, 9>>
    /\ <<9, 8>> \in discovered /\ <<8, 9>> \in discovered
    /\ moves_count = 20

\* C22: the player's gold is never negative.
C22_GoldNeverNegative == player.gold >= 0

\* C22: the player has bought the dearest weapon the catalog holds and has 5
\* gold left
C22_Witness ==
    /\ pc = "main" /\ player.gold = 5
    /\ \E k \in 1..Len(player.inventory) :
         /\ player.inventory[k].kind = "weapon"
         /\ weapons[player.inventory[k].ref].name = "Excalibur"

\* C25: a weapon that can break and has no durability left is never the
\* equipped weapon, so it adds nothing to the attack or to a damage roll.
C25_BrokenWeaponUnusable ==
    player.equipped_weapon # 0 =>
      \/ weapons[player.equipped_weapon].max_durability = 0
      \/ weapons[player.equipped_weapon].durability > 0

\* C28 as claimed: an input that is none of 1, 2 and 3 changes nothing in the
\* player's turn; the enemy then attacks and the round counter advances.
C28_UnknownInputConsumesRound ==
    [][/\ (pc = "player_turn" /\ choice' = "x") =>
            /\ player' = player /\ enemy' = enemy /\ weapons' = weapons
            /\ pc' = "enemy_turn" /\ outcome' = "ongoing"
       /\ (pc = "enemy_turn" /\ choice = "x") =>
            /\ \E damage \in damage_rolls(enemy) :
                 player' = take_damage(player, damage)
            /\ turn' = turn + 1]_vars

\* C28 amended: an input that is none of 1, 2 and 3 changes nothing in the
\* player's turn; the enemy then attacks; the round counter advances if the
\* player survives the attack, and stands if the attack ends the battle with
\* playerDefeat.
C28_UnknownInput ==
    [][/\ (pc = "player_turn" /\ choice' = "x") =>
            /\ player' = player /\ enemy' = enemy /\ weapons' = weapons
            /\ turn' = turn
            /\ pc' = "enemy_turn" /\ outcome' = "ongoing"
       /\ (pc = "enemy_turn" /\ choice = "x") =>
            /\ \E damage \in damage_rolls(enemy) :
                 player' = take_damage(player, damage)
            /\ enemy'.health = enemy.health
            /\ IF player'.health > 0
               THEN turn' = turn + 1 /\ pc' = "player_turn"
                    /\ outcome' = "ongoing"
               ELSE turn' = turn /\ pc' = "after_battle"
                    /\ outcome' = "playerDefeat"]_vars

\* C28: an unknown input was given in the first round by a wounded player;
\* the enemy is about to attack
C28_Witness ==
    /\ pc = "enemy_turn" /\ choice = "x" /\ turn = 1
    /\ player.health < player.max_health

\* C24: after a load the attack of the player is the base attack plus the
\* bonus of the equipped weapon, the base attack alone when none is equipped,
\* also when the catalog does not hold the weapon the save was written with.
C24_AttackAfterLoad ==
    pc = "main" =>
      player.attack = float(player.base_attack) + weapon_bonus(player)

\* The player attacks in the first round and the least damage the attack can
\* deal (the lowest roll less the enemy's defense) is at least the enemy's
\* health
SureKill ==
    /\ pc = "player_turn" /\ turn = 1 /\ choice' = "1"
    /\ int(player.attack - float(2)) - enemy.defense >= enemy.health

\* C23 as claimed: such an attack ends the battle with playerVictory in the
\* first round, the player's health being what it was.
C23_SureKillLeavesHealth ==
    [][SureKill =>
         /\ outcome' = "playerVictory" /\ pc' = "after_battle" /\ turn' = 1
         /\ player'.health = player.health]_vars

\* C23 amended: such an attack ends the battle with playerVictory in the
\* first round; the enemy does not act and the player's health is not
\* reduced: it is what it was, unless the experience of the victory brings a
\* level-up, which sets it to the new max_health.
C23_SureKill ==
    [][SureKill =>
         /\ outcome' = "playerVictory" /\ pc' = "after_battle" /\ turn' = 1
         /\ enemy'.health = 0
         /\ IF player'.level = player.level
            THEN player'.health = player.health
            ELSE /\ player'.health = player'.max_health
                 /\ player'.health >= player.health]_vars

\* C23: a battle won in its first round by a player whom the victory did not
\* bring a level-up
C23_Witness ==
    /\ pc = "after_battle" /\ outcome = "playerVictory" /\ turn = 1
    /\ player.level = 4 /\ player.experience < 85

\* C27: the enemy an exploration meets is one of the first min(5, level + 1)
\* enemy types of the list Goblin, Skeleton, Orc, Dark Knight, Dragon.
C27_EncounterByLevel ==
    [][(pc = "main" /\ pc' = "player_turn") =>
         /\ \E k \in 1..Min(5, player.level + 1) :
              enemy' = Enemy(enemy_types[k])
         /\ <<enemy_types[1].name, enemy_types[2].name, enemy_types[3].name,
              enemy_types[4].name, enemy_types[5].name>> =
            <<"Goblin", "Skeleton", "Orc", "Dark Knight", "Dragon">>
         /\ player.level = 1 => enemy'.name \in {"Goblin", "Skeleton"}
         /\ enemy'.name = "Dragon" => player.level >= 4]_vars

\* C27: a player of level 4 meets the Dragon
C27_Witness ==
    /\ pc = "player_turn" /\ turn = 1 /\ choice = ""
    /\ enemy.name = "Dragon" /\ player.level = 4

\* C26: the battle goes on, whatever the round, as long as neither side is
\* defeated; and when the player attacks in every round and the least damage
\* of an unarmed attack (base_attack - 2 - the enemy's defense) is at least
\* 1, the battle reaches playerVictory or playerDefeat.
C26_AttackingEndsCombat ==
    /\ [][/\ (pc = "player_turn" /\ enemy'.health > 0) =>
               pc' = "enemy_turn" /\ outcome' = "ongoing" /\ turn' = turn
          /\ (pc = "enemy_turn" /\ player'.health > 0) =>
               pc' = "player_turn" /\ outcome' = "ongoing"
               /\ turn' = turn + 1]_vars
    /\ (pc = "player_turn" /\ player.base_attack - 2 - enemy.defense >= 1)
         ~> (outcome \in {"playerVictory", "playerDefeat"})

\* C26: a battle that ended in its eighth round or later
C26_Witness ==
    /\ pc = "after_battle" /\ turn >= 8
    /\ outcome \in {"playerVictory", "playerDefeat"}

====
